---- MODULE Spec2Model ----
(***************************************************************************)
(* Twilio media stream <-> OpenAI realtime relay (src/main.py).            *)
(*                                                                         *)
(* The model follows the asyncio program: one handler coroutine per        *)
(* inbound websocket (handle_media_stream) and, once the relay is set up,  *)
(* two tasks per connection (receive_from_twilio, send_to_twilio).  A step *)
(* of the model is the code a task runs between two awaits; an awaited     *)
(* send puts its message on the wire in the step that calls it and the     *)
(* code after the await runs in a later step.                              *)
(*                                                                         *)
(* Each socket is a one-place mailbox: the peer puts a frame in it, the    *)
(* program takes it out at its next receive.  A frame that is in the       *)
(* mailbox when the peer closes is still delivered before the close.       *)
(***************************************************************************)
EXTENDS Integers, Sequences, FiniteSets, TLC

----------------------------------------------------------------------------
(* Bounds of the model *)

\* tokens issued by /incoming-call in one run
MaxTokens == 2
\* steps the clock takes in one run
MaxTicks == 2
\* frames the inbound peers send before the relay starts
MaxHandshakeFrames == 2
\* events the model sends before the relay starts
MaxInitEvents == 1
\* frames the inbound peer sends to the relay
MaxInbound == 2
\* events the model sends to the relay
MaxModelEvents == 2

----------------------------------------------------------------------------
(* Program constants *)

\* timedelta(seconds=60)
TOKEN_TTL == 60

----------------------------------------------------------------------------
(* Domains *)

Conns == {"c1", "c2"}

\* token values: secrets.token_urlsafe(32) never repeats a value and cannot be
\* guessed, so the k-th token issued is the value k and a peer knows the tokens
\* issued so far; NoToken is None (or ""), UnknownToken a value never issued
Tokens == 1..MaxTokens
NoToken == 0
UnknownToken == MaxTokens + 1

\* stream identifiers; NoSid is None
Sids == {"S1", "S2"}
NoSid == "None"

\* item ids of the model; NoItem is None
Items == {"item1", "item2"}
NoItem == "None"

\* an optional integer: None or a value
None == <<>>
Some(v) == <<v>>

\* clock steps: a second, or the life of a token
TickSteps == {1, TOKEN_TTL}
\* the number of steps that lead to the time t
Ticks(t) == (t \div TOKEN_TTL) + (t % TOKEN_TTL)

\* base64 text is a sequence of characters: 0..63 are the alphabet's
\* characters by value, PadChar is "="
PadChar == 64
\* "QQ==" (byte 65), "Qg==" (byte 66): canonical
PayloadA == <<16, 16, PadChar, PadChar>>
PayloadB == <<16, 32, PadChar, PadChar>>
\* "QR==": decodes to byte 65 too, its low four bits are not zero
PayloadA2 == <<16, 17, PadChar, PadChar>>
\* "QQ": the padding is missing
PayloadBad == <<16, 16>>

NoMsg == [event |-> "none"]
NoEv == [type |-> "none"]

\* frames of the inbound leg
StartFrame(tok, sid) == [event |-> "start", token |-> tok, streamSid |-> sid]
MediaFrame(ts, p) == [event |-> "media", timestamp |-> ts, payload |-> p]
MediaInputs == {MediaFrame(40, PayloadA), MediaFrame(100, PayloadB)}
\* the stream of a connection before any restart
SidOf(c) == IF c = "c1" THEN "S1" ELSE "S2"
ConnectedFrame == [event |-> "connected"]
HandshakeInputs(c, known) ==
    {StartFrame(tok, SidOf(c)) : tok \in known \cup {NoToken, UnknownToken}}
        \cup {MediaFrame(40, PayloadA)}
\* a start frame in the middle of a connection opens another stream
RelayInputs ==
    MediaInputs
        \cup {StartFrame(NoToken, "S2")}
        \cup {[event |-> "mark"], [event |-> "stop"]}

\* events of the model leg
AudioDelta(item, p) == [type |-> "response.output_audio.delta", item_id |-> item, delta |-> p]
\* what the model may send before the greeting asks it for a response
InitInputs == {[type |-> "session.created"], [type |-> "session.updated"]}
ModelInputs ==
    {AudioDelta("item1", PayloadA), AudioDelta("item2", PayloadA2),
     AudioDelta("item2", PayloadBad)}
        \cup {[type |-> "input_audio_buffer.speech_started"], [type |-> "session.updated"]}

\* the session state of a connection before lines 193-197 have run
NoSession == [exists |-> FALSE]

----------------------------------------------------------------------------
VARIABLES
    now,               \* datetime.now(), in seconds
    websocket_tokens,  \* token -> expiration
    issued,            \* number of tokens generated so far
    pc,                \* position of handle_media_stream, per connection
    ws,                \* state of the inbound websocket
    closeReason,       \* reason of the close the program sent on it
    inbox,             \* frame sent by the inbound peer, not yet received
    nIn,               \* frames the inbound peers have sent
    peerGone,          \* the inbound peer has closed its side
    openai_ws,         \* state of the model connection
    modelbox,          \* event sent by the model, not yet received
    nEv,               \* events the model has sent
    initial_stream_sid,\* the streamSid of the start frame (line 151)
    session,           \* the connection specific state (lines 193-197)
    recvPc,            \* position of receive_from_twilio
    sendPc,            \* position of send_to_twilio
    response,          \* the event send_to_twilio is handling
    modelOut,          \* commands sent to the model, in order
    twilioOut,         \* frames sent downstream, in order
    hist,              \* history of the connection (not program state)
    tokHist            \* history of the token store (not program state)

vars == <<now, websocket_tokens, issued, pc, ws, closeReason, inbox, nIn, peerGone,
          openai_ws, modelbox, nEv, initial_stream_sid, session, recvPc, sendPc, response, modelOut,
          twilioOut, hist, tokHist>>

tokenVars == <<now, websocket_tokens, issued, tokHist>>
inboundVars == <<ws, closeReason, inbox, nIn, peerGone>>
modelVars == <<openai_ws, modelbox, nEv>>
relayVars == <<initial_stream_sid, session, recvPc, sendPc, response>>
outVars == <<modelOut, twilioOut>>

----------------------------------------------------------------------------
(* The histories, before anything has happened *)

NoBarge == [item |-> NoItem, latest |-> 0, start |-> 0, modelOpen |-> FALSE,
            modelSent |-> 0, twilioSent |-> 0, sid |-> NoSid, phase |-> "none"]
NoTurn == [item |-> NoItem, media |-> None, since |-> None]

NoHist ==
    [connected |-> "none", unexpected |-> FALSE,
     started |-> FALSE, token |-> NoToken, sid |-> NoSid, verdict |-> "none",
     inStore |-> FALSE, expired |-> FALSE, swept |-> FALSE, presentedBefore |-> FALSE,
     ack |-> "none",
     inMedia |-> <<>>, inDelta |-> <<>>, lastMediaTs |-> None, mediaSinceStart |-> None,
     marksIn |-> 0, acked |-> 0, ackInFlight |-> FALSE, stopAt |-> None,
     turn |-> NoTurn, barge |-> NoBarge]

----------------------------------------------------------------------------
(* The token store *)

\* f without the key t (del websocket_tokens[token])
Del(f, t) == [k \in DOMAIN f \ {t} |-> f[k]]

\* f with f[t] = v (websocket_tokens[token] = expiration)
Put(f, t, v) == [k \in DOMAIN f \cup {t} |-> IF k = t THEN v ELSE f[k]]

\* cleanup_expired_tokens with exp <= now at line 77
cleanup_tokens_at_expiry(store, t) ==
    [k \in {j \in DOMAIN store : store[j] > t} |-> store[k]]

\* cleanup_expired_tokens: the store without the tokens with exp < now
ExpiredIn(store, t) == {k \in DOMAIN store : store[k] < t}
cleanup_expired_tokens(store, t) ==
    [k \in DOMAIN store \ ExpiredIn(store, t) |-> store[k]]

\* generate_websocket_token: the store with the new token, good for TOKEN_TTL
generate_websocket_token(store, token, t) == Put(store, token, t + TOKEN_TTL)

\* Validate without line 176: an accepted token stays in the store
ValidateKeepsToken(store, token, t) ==
    IF token = NoToken \/ token \notin DOMAIN store
        THEN [verdict |-> "Invalid or missing token", store |-> store]
    ELSE IF t > store[token]
        THEN [verdict |-> "Token expired", store |-> Del(store, token)]
    ELSE [verdict |-> "ok", store |-> store]

\* Validate without lines 169-173: the expiration is not looked at
ValidateIgnoresExpiry(store, token, t) ==
    IF token = NoToken \/ token \notin DOMAIN store
        THEN [verdict |-> "Invalid or missing token", store |-> store]
    ELSE [verdict |-> "ok", store |-> Del(store, token)]

\* Validate without the membership test of line 163
ValidateAnyToken(store, token, t) ==
    IF token = NoToken
        THEN [verdict |-> "Invalid or missing token", store |-> store]
    ELSE IF token \in DOMAIN store /\ t > store[token]
        THEN [verdict |-> "Token expired", store |-> Del(store, token)]
    ELSE [verdict |-> "ok", store |-> Del(store, token)]

\* lines 163-176 of handle_media_stream: the verdict on a presented token
\* and the store it leaves
Validate(store, token, t) ==
    IF token = NoToken \/ token \notin DOMAIN store
        THEN [verdict |-> "Invalid or missing token", store |-> store]
    ELSE IF t > store[token]
        THEN [verdict |-> "Token expired", store |-> Del(store, token)]
    ELSE [verdict |-> "ok", store |-> Del(store, token)]

\* POST /incoming-call with a valid signature: sweep, then issue a token
IncomingCall ==
    /\ issued < MaxTokens
    /\ LET swept == cleanup_expired_tokens(websocket_tokens, now)
           token == issued + 1
       IN /\ websocket_tokens' = generate_websocket_token(swept, token, now)
          /\ issued' = token
          /\ tokHist' = [tokHist EXCEPT
                !.expiry = Put(@, token, now + TOKEN_TTL),
                !.swept = @ \cup ExpiredIn(websocket_tokens, now)]
    /\ UNCHANGED <<now, pc, inboundVars, modelVars, relayVars, outVars, hist>>

\* time passes
Tick ==
    /\ \E d \in TickSteps :
        /\ Ticks(now + d) <= MaxTicks
        /\ now' = now + d
    /\ UNCHANGED <<websocket_tokens, issued, tokHist, pc, inboundVars, modelVars,
                   relayVars, outVars, hist>>

----------------------------------------------------------------------------
(* The peers *)

\* the inbound peer sends the frame f
\* the marks sent downstream so far
MarksSent(out) == Len(SelectSeq(out, LAMBDA f : f.event = "mark"))

\* a mark frame acknowledges a mark when one sent downstream has none yet
TwilioSend(c, f) ==
    /\ ws[c] = "open" /\ ~peerGone[c]
    /\ inbox[c] = NoMsg
    /\ inbox' = [inbox EXCEPT ![c] = f]
    /\ nIn' = nIn + 1
    /\ hist' = [hist EXCEPT ![c].ackInFlight =
                    f.event = "mark" /\ hist[c].acked < MarksSent(twilioOut[c])]
    /\ UNCHANGED <<tokenVars, pc, ws, closeReason, peerGone, modelVars, relayVars,
                   outVars>>

\* the inbound peer sends a start frame, or a frame that is out of place
TwilioSendHandshake(c) ==
    /\ pc[c] = "handshake"
    /\ nIn < MaxHandshakeFrames
    /\ \E f \in HandshakeInputs(c, 1..issued) : TwilioSend(c, f)

\* the inbound peer sends a connected frame (any number of them: they are
\* not counted in nIn)
TwilioSendConnected(c) ==
    /\ pc[c] = "handshake"
    /\ ws[c] = "open" /\ ~peerGone[c]
    /\ inbox[c] = NoMsg
    /\ inbox' = [inbox EXCEPT ![c] = ConnectedFrame]
    /\ UNCHANGED <<tokenVars, pc, ws, closeReason, nIn, peerGone, modelVars, relayVars,
                   outVars, hist>>

\* the inbound peer sends a frame of the stream
TwilioSendRelay(c) ==
    /\ pc[c] = "relay"
    /\ nIn < MaxInbound
    /\ \E f \in RelayInputs : TwilioSend(c, f)

\* the inbound peer closes its side
TwilioClose(c) ==
    /\ ws[c] = "open" /\ ~peerGone[c]
    /\ peerGone' = [peerGone EXCEPT ![c] = TRUE]
    /\ UNCHANGED <<tokenVars, pc, ws, closeReason, inbox, nIn, modelVars, relayVars,
                   outVars, hist>>

\* the model sends the event e
ModelSend(c, e) ==
    /\ openai_ws[c] = "OPEN"
    /\ modelbox[c] = NoEv
    /\ modelbox' = [modelbox EXCEPT ![c] = e]
    /\ nEv' = nEv + 1
    /\ UNCHANGED <<tokenVars, pc, inboundVars, openai_ws, relayVars, outVars, hist>>

\* the model answers the opening of the session
ModelSendInit(c) ==
    /\ pc[c] \in {"init_send", "init_recv"}
    /\ nEv < MaxInitEvents
    /\ \E e \in InitInputs : ModelSend(c, e)

\* the model sends an event of the conversation
ModelSendRelay(c) ==
    /\ pc[c] = "relay"
    /\ nEv < MaxModelEvents
    /\ \E e \in ModelInputs : ModelSend(c, e)

\* the model closes the connection
ModelClose(c) ==
    /\ openai_ws[c] = "OPEN"
    /\ openai_ws' = [openai_ws EXCEPT ![c] = "CLOSED"]
    /\ UNCHANGED <<tokenVars, pc, inboundVars, modelbox, nEv, relayVars, outVars, hist>>

----------------------------------------------------------------------------
(* handle_media_stream: the handshake (lines 134-182) *)

\* a new inbound connection arrives (after an earlier one has ended, a new
\* run of the handler with fresh locals): await websocket.accept()
Accept(c) ==
    /\ pc[c] \in {"none", "closed"}
    /\ nIn < MaxHandshakeFrames
    /\ pc' = [pc EXCEPT ![c] = "handshake"]
    /\ ws' = [ws EXCEPT ![c] = "open"]
    /\ closeReason' = [closeReason EXCEPT ![c] = "none"]
    /\ inbox' = [inbox EXCEPT ![c] = NoMsg]
    /\ peerGone' = [peerGone EXCEPT ![c] = FALSE]
    /\ openai_ws' = [openai_ws EXCEPT ![c] = "none"]
    /\ modelbox' = [modelbox EXCEPT ![c] = NoEv]
    /\ initial_stream_sid' = [initial_stream_sid EXCEPT ![c] = NoSid]
    /\ session' = [session EXCEPT ![c] = NoSession]
    /\ recvPc' = [recvPc EXCEPT ![c] = "idle"]
    /\ sendPc' = [sendPc EXCEPT ![c] = "idle"]
    /\ response' = [response EXCEPT ![c] = NoEv]
    /\ modelOut' = [modelOut EXCEPT ![c] = <<>>]
    /\ twilioOut' = [twilioOut EXCEPT ![c] = <<>>]
    /\ hist' = [hist EXCEPT ![c] = NoHist]
    /\ UNCHANGED <<tokenVars, nIn, nEv>>

\* await websocket.close(code, reason); return
Reject(c, reason) ==
    /\ pc' = [pc EXCEPT ![c] = "closed"]
    /\ ws' = [ws EXCEPT ![c] = "closed"]
    /\ closeReason' = [closeReason EXCEPT ![c] = reason]

\* lines 146-161 without the else branch: a frame that is neither start nor
\* connected is skipped like a connected frame
OnHandshakeFrameSkipsAll(store, data, t) ==
    IF data.event = "start" THEN
        LET v == Validate(store, data.token, t) IN
        [next |-> IF v.verdict = "ok" THEN "connect" ELSE "closed",
         reason |-> v.verdict, store |-> v.store, sid |-> data.streamSid]
    ELSE [next |-> "handshake", reason |-> "none", store |-> store, sid |-> NoSid]

\* one turn of the loop of lines 141-161, and lines 163-177 after a start:
\* where the handler goes next, the reason of the close if it closes, the
\* token store and the stream identifier it leaves
OnHandshakeFrame(store, data, t) ==
    IF data.event = "start" THEN
        LET v == Validate(store, data.token, t) IN
        [next |-> IF v.verdict = "ok" THEN "connect" ELSE "closed",
         reason |-> v.verdict, store |-> v.store, sid |-> data.streamSid]
    ELSE IF data.event = "connected" THEN
        [next |-> "handshake", reason |-> "none", store |-> store, sid |-> NoSid]
    ELSE
        [next |-> "closed", reason |-> "Unexpected event", store |-> store, sid |-> NoSid]

\* await websocket.receive_text() returns a frame
HandshakeReceive(c) ==
    /\ pc[c] = "handshake"
    /\ inbox[c] # NoMsg
    /\ inbox' = [inbox EXCEPT ![c] = NoMsg]
    /\ LET data == inbox[c]
           r == OnHandshakeFrame(websocket_tokens, data, now)
       IN /\ websocket_tokens' = r.store
          /\ initial_stream_sid' = [initial_stream_sid EXCEPT ![c] = r.sid]
          /\ IF r.next = "closed"
                THEN Reject(c, r.reason)
                ELSE /\ pc' = [pc EXCEPT ![c] = r.next]
                     /\ UNCHANGED <<ws, closeReason>>
          /\ hist' = [hist EXCEPT ![c] =
                IF data.event = "start" THEN
                    [@ EXCEPT
                        !.started = TRUE,
                        !.token = data.token,
                        !.sid = data.streamSid,
                        !.verdict = r.reason,
                        !.inStore = data.token \in DOMAIN websocket_tokens,
                        !.expired = /\ data.token \in DOMAIN tokHist.expiry
                                    /\ now > tokHist.expiry[data.token],
                        !.swept = data.token \in tokHist.swept,
                        !.presentedBefore = data.token \in tokHist.presented]
                ELSE IF data.event = "connected" THEN
                    [@ EXCEPT !.connected = IF @ = "none" THEN "one" ELSE "many"]
                ELSE [@ EXCEPT !.unexpected = TRUE]]
          /\ tokHist' =
                IF data.event = "start" THEN
                    [tokHist EXCEPT
                        !.presented = @ \cup {data.token},
                        !.accepted = IF r.next = "connect" THEN Append(@, data.token) ELSE @]
                ELSE tokHist
    /\ UNCHANGED <<now, issued, nIn, peerGone, modelVars, session, recvPc, sendPc,
                   response, outVars>>

\* receive_text raises once the peer is gone: the except branch of line 179
HandshakeDisconnect(c) ==
    /\ pc[c] = "handshake"
    /\ inbox[c] = NoMsg /\ peerGone[c]
    /\ Reject(c, "Authentication error")
    /\ UNCHANGED hist
    /\ UNCHANGED <<tokenVars, inbox, nIn, peerGone, modelVars, relayVars, outVars>>

----------------------------------------------------------------------------
(* handle_media_stream: the model connection (lines 184-197) *)

\* an exception leaves handle_media_stream: the async with block closes the
\* model connection and the server closes the inbound websocket
Crash(c) ==
    /\ pc' = [pc EXCEPT ![c] = "closed"]
    /\ ws' = [ws EXCEPT ![c] = "closed"]
    /\ closeReason' = [closeReason EXCEPT ![c] = "Internal error"]
    /\ openai_ws' = [openai_ws EXCEPT ![c] = IF @ = "none" THEN "none" ELSE "CLOSED"]

\* websockets.connect(...): the connection opens or the call raises
OpenModel(c) ==
    /\ pc[c] = "connect"
    /\ \/ /\ openai_ws' = [openai_ws EXCEPT ![c] = "OPEN"]
          /\ pc' = [pc EXCEPT ![c] = "init_send"]
          /\ UNCHANGED <<ws, closeReason>>
       \/ Crash(c)
    /\ UNCHANGED <<tokenVars, inbox, nIn, peerGone, modelbox, nEv, relayVars, outVars, hist>>

\* initialize_session, line 360: send session.update
InitSendUpdate(c) ==
    /\ pc[c] = "init_send"
    /\ IF openai_ws[c] = "OPEN"
        THEN /\ modelOut' = [modelOut EXCEPT ![c] = Append(@, [type |-> "session.update"])]
             /\ pc' = [pc EXCEPT ![c] = "init_recv"]
             /\ UNCHANGED <<ws, closeReason, openai_ws>>
        ELSE Crash(c) /\ UNCHANGED modelOut
    /\ UNCHANGED <<tokenVars, inbox, nIn, peerGone, modelbox, nEv, relayVars, twilioOut, hist>>

\* initialize_session, lines 363-371: receive one event, whatever its type
InitRecv(c) ==
    /\ pc[c] = "init_recv"
    /\ \/ /\ modelbox[c] # NoEv
          /\ modelbox' = [modelbox EXCEPT ![c] = NoEv]
          /\ hist' = [hist EXCEPT ![c].ack = modelbox[c].type]
          /\ pc' = [pc EXCEPT ![c] = "greet"]
          /\ UNCHANGED <<ws, closeReason, openai_ws>>
       \/ /\ modelbox[c] = NoEv /\ openai_ws[c] = "CLOSED"
          /\ Crash(c)
          /\ UNCHANGED <<modelbox, hist>>
    /\ UNCHANGED <<tokenVars, inbox, nIn, peerGone, nEv, relayVars, outVars>>

\* lines 193-197 with the stream identifier of the start frame left out
NewSessionNoStream(sid) ==
    [exists |-> TRUE,
     stream_sid |-> NoSid,
     latest_media_timestamp |-> 0,
     last_assistant_item |-> NoItem,
     mark_queue |-> <<>>,
     response_start_timestamp_twilio |-> None]

\* the connection specific state, lines 193-197
NewSession(sid) ==
    [exists |-> TRUE,
     stream_sid |-> sid,
     latest_media_timestamp |-> 0,
     last_assistant_item |-> NoItem,
     mark_queue |-> <<>>,
     response_start_timestamp_twilio |-> None]

\* send_initial_conversation_item (lines 321-322), then lines 193-197 and
\* line 304 start the two pumps
SendGreeting(c) ==
    /\ pc[c] = "greet"
    /\ IF openai_ws[c] = "OPEN"
        THEN /\ modelOut' = [modelOut EXCEPT ![c] =
                    @ \o <<[type |-> "conversation.item.create"], [type |-> "response.create"]>>]
             /\ session' = [session EXCEPT ![c] = NewSession(initial_stream_sid[c])]
             /\ recvPc' = [recvPc EXCEPT ![c] = "wait"]
             /\ sendPc' = [sendPc EXCEPT ![c] = "wait"]
             /\ pc' = [pc EXCEPT ![c] = "relay"]
             /\ UNCHANGED <<ws, closeReason, openai_ws>>
        ELSE Crash(c) /\ UNCHANGED <<modelOut, session, recvPc, sendPc>>
    /\ UNCHANGED <<tokenVars, inbox, nIn, peerGone, modelbox, nEv, initial_stream_sid,
                   response, twilioOut, hist>>

----------------------------------------------------------------------------
(* base64, as line 236 uses it *)

IsData(ch) == ch # PadChar

\* base64.b64decode(text): the bytes, or the binascii.Error it raises.  The
\* bits of the last character that belong to no byte are dropped.
b64decode(text) ==
    LET d == SelectSeq(text, IsData)
        pads == Len(text) - Len(d)
    IN  IF Len(d) = 0 THEN [ok |-> TRUE, bytes |-> <<>>]
        ELSE IF Len(d) = 2 /\ pads >= 2
            THEN [ok |-> TRUE, bytes |-> <<d[1] * 4 + d[2] \div 16>>]
        ELSE IF Len(d) = 3 /\ pads >= 1
            THEN [ok |-> TRUE,
                  bytes |-> <<d[1] * 4 + d[2] \div 16, (d[2] % 16) * 16 + d[3] \div 4>>]
        ELSE IF Len(d) = 4
            THEN [ok |-> TRUE,
                  bytes |-> <<d[1] * 4 + d[2] \div 16, (d[2] % 16) * 16 + d[3] \div 4,
                              (d[3] % 4) * 64 + d[4]>>]
        ELSE [ok |-> FALSE, bytes |-> <<>>]

\* base64.b64encode(bytes).decode('utf-8')
b64encode(b) ==
    IF Len(b) = 0 THEN <<>>
    ELSE IF Len(b) = 1
        THEN <<b[1] \div 4, (b[1] % 4) * 16, PadChar, PadChar>>
    ELSE IF Len(b) = 2
        THEN <<b[1] \div 4, (b[1] % 4) * 16 + b[2] \div 16, (b[2] % 16) * 4, PadChar>>
    ELSE <<b[1] \div 4, (b[1] % 4) * 16 + b[2] \div 16, (b[2] % 16) * 4 + b[3] \div 64,
           b[3] % 64>>

\* line 236: the payload sent downstream for a delta that decodes
audio_payload(delta) == b64encode(b64decode(delta).bytes)

----------------------------------------------------------------------------
(* receive_from_twilio (lines 199-224) *)

InboundOpen(c) == ws[c] = "open" /\ ~peerGone[c]

\* lines 205-220 with a mark frame emptying the queue
OnInboundFrameDropsMarks(s, data, modelOpen) ==
    IF data.event = "media" /\ modelOpen
        THEN [s EXCEPT !.latest_media_timestamp = data.timestamp]
    ELSE IF data.event = "start"
        THEN [s EXCEPT !.stream_sid = data.streamSid, !.latest_media_timestamp = 0]
    ELSE IF data.event = "mark"
        THEN [s EXCEPT !.mark_queue = <<>>]
    ELSE s

\* lines 205-220: the session state after a frame
OnInboundFrame(s, data, modelOpen) ==
    IF data.event = "media" /\ modelOpen
        THEN [s EXCEPT !.latest_media_timestamp = data.timestamp]
    ELSE IF data.event = "start"
        \* response_start_timestamp_twilio and last_assistant_item are not
        \* declared nonlocal in receive_from_twilio: lines 215 and 217 assign
        \* locals of this function
        THEN [s EXCEPT !.stream_sid = data.streamSid, !.latest_media_timestamp = 0]
    ELSE IF data.event = "mark"
        THEN [s EXCEPT !.mark_queue = IF @ # <<>> THEN Tail(@) ELSE @]
    ELSE s

\* lines 207-211: what a frame makes the pump send to the model
AppendsFor(data, modelOpen) ==
    IF data.event = "media" /\ modelOpen
        THEN <<[type |-> "input_audio_buffer.append", audio |-> data.payload]>>
        ELSE <<>>

\* one turn of the loop of line 203
ReceiveFromTwilio(c) ==
    /\ recvPc[c] = "wait"
    /\ inbox[c] # NoMsg
    /\ inbox' = [inbox EXCEPT ![c] = NoMsg]
    /\ LET data == inbox[c]
           modelOpen == openai_ws[c] = "OPEN"
       IN /\ session' = [session EXCEPT ![c] = OnInboundFrame(@, data, modelOpen)]
          /\ modelOut' = [modelOut EXCEPT ![c] = @ \o AppendsFor(data, modelOpen)]
          /\ hist' = [hist EXCEPT
                ![c].inMedia = IF data.event = "media" THEN Append(@, data.payload) ELSE @,
                ![c].lastMediaTs = IF data.event = "media" /\ modelOpen
                                        THEN Some(data.timestamp) ELSE @,
                ![c].mediaSinceStart = IF data.event = "media" /\ modelOpen
                                            THEN Some(data.timestamp)
                                        ELSE IF data.event = "start" THEN None
                                        ELSE @,
                ![c].marksIn = IF data.event = "mark" THEN @ + 1 ELSE @,
                ![c].stopAt = IF data.event = "stop" /\ @ = None
                                THEN Some(Len(modelOut[c])) ELSE @,
                ![c].acked = IF data.event = "mark" /\ hist[c].ackInFlight
                                THEN @ + 1 ELSE @,
                ![c].ackInFlight = FALSE]
    /\ UNCHANGED <<tokenVars, pc, ws, closeReason, nIn, peerGone, modelVars,
                   initial_stream_sid, recvPc, sendPc, response, twilioOut>>

\* the inbound peer has closed.  The except branch of lines 221-224 runs when
\* the iteration lets WebSocketDisconnect through; an iterator that ends on
\* the disconnect skips it.  Either way the pump ends.
ReceiveDisconnect(c) ==
    /\ recvPc[c] = "wait"
    /\ inbox[c] = NoMsg /\ peerGone[c]
    /\ recvPc' = [recvPc EXCEPT ![c] = "done"]
    /\ \/ openai_ws' = [openai_ws EXCEPT ![c] = "CLOSED"]
       \/ UNCHANGED openai_ws
    /\ UNCHANGED <<tokenVars, pc, inboundVars, modelbox, nEv, initial_stream_sid, session,
                   sendPc, response, outVars, hist>>

----------------------------------------------------------------------------
(* send_to_twilio (lines 226-262), handle_speech_started_event (264-292),   *)
(* send_mark (294-302)                                                      *)

IsAudioDelta(ev) == ev.type = "response.output_audio.delta"
IsSpeechStarted(ev) == ev.type = "input_audio_buffer.speech_started"

\* lines 237-243
audio_delta(sid, delta) ==
    [event |-> "media", streamSid |-> sid, payload |-> audio_payload(delta)]

\* lines 247-249 with the start of the response taken as the start of the stream
NewTurnAtZero(s, item) ==
    IF item # NoItem /\ item # s.last_assistant_item
        THEN [s EXCEPT !.response_start_timestamp_twilio = Some(0),
                       !.last_assistant_item = item]
        ELSE s

\* lines 247-249: a delta of a new item starts a turn
NewTurn(s, item) ==
    IF item # NoItem /\ item # s.last_assistant_item
        THEN [s EXCEPT !.response_start_timestamp_twilio = Some(s.latest_media_timestamp),
                       !.last_assistant_item = item]
        ELSE s

\* lines 258 and 268 without the test of mark_queue
InterruptsWithoutMarks(s) ==
    /\ s.last_assistant_item # NoItem
    /\ s.response_start_timestamp_twilio # None

\* lines 258 and 268: the interruption runs
Interrupts(s) ==
    /\ s.last_assistant_item # NoItem
    /\ s.mark_queue # <<>>
    /\ s.response_start_timestamp_twilio # None

\* line 269 without the start of the response
elapsed_since_stream_start(s) == s.latest_media_timestamp

\* line 269
elapsed_time(s) == s.latest_media_timestamp - s.response_start_timestamp_twilio[1]

\* lines 277-282
truncate_event(s) ==
    [type |-> "conversation.item.truncate",
     item_id |-> s.last_assistant_item,
     audio_end_ms |-> elapsed_time(s)]

\* lines 285-288
clear_event(s) == [event |-> "clear", streamSid |-> s.stream_sid]

\* lines 296-300
mark_event(sid) == [event |-> "mark", streamSid |-> sid, name |-> "responsePart"]

\* lines 290-292 without line 292
ResetTurnKeepsStart(s) ==
    [s EXCEPT !.mark_queue = <<>>,
              !.last_assistant_item = NoItem]

\* lines 290-292
ResetTurn(s) ==
    [s EXCEPT !.mark_queue = <<>>,
              !.last_assistant_item = NoItem,
              !.response_start_timestamp_twilio = None]

\* the except branch of line 261 ends the pump
PumpFails(c) == sendPc' = [sendPc EXCEPT ![c] = "done"]

\* line 230 yields an event; lines 231-244 or 256-283 run up to the first await
SendToTwilio(c) ==
    /\ sendPc[c] = "wait"
    /\ modelbox[c] # NoEv
    /\ modelbox' = [modelbox EXCEPT ![c] = NoEv]
    /\ response' = [response EXCEPT ![c] = modelbox[c]]
    /\ LET ev == modelbox[c]
           s == session[c]
       IN IF IsAudioDelta(ev) THEN
            /\ hist' = [hist EXCEPT ![c].inDelta = Append(@, ev.delta),
                                    ![c].barge = NoBarge]
            /\ IF b64decode(ev.delta).ok /\ InboundOpen(c)
                THEN /\ twilioOut' = [twilioOut EXCEPT ![c] =
                            Append(@, audio_delta(s.stream_sid, ev.delta))]
                     /\ sendPc' = [sendPc EXCEPT ![c] = "media_sent"]
                ELSE PumpFails(c) /\ UNCHANGED twilioOut
            /\ UNCHANGED modelOut
          ELSE IF IsSpeechStarted(ev) /\ Interrupts(s) THEN
            /\ hist' = [hist EXCEPT ![c].barge =
                    [item |-> s.last_assistant_item,
                     latest |-> s.latest_media_timestamp,
                     start |-> s.response_start_timestamp_twilio[1],
                     modelOpen |-> openai_ws[c] = "OPEN",
                     modelSent |-> Len(modelOut[c]),
                     twilioSent |-> Len(twilioOut[c]),
                     sid |-> NoSid,
                     phase |-> "started"]]
            /\ IF openai_ws[c] = "OPEN"
                THEN /\ modelOut' = [modelOut EXCEPT ![c] = Append(@, truncate_event(s))]
                     /\ sendPc' = [sendPc EXCEPT ![c] = "truncate_sent"]
                ELSE PumpFails(c) /\ UNCHANGED modelOut
            /\ UNCHANGED twilioOut
          ELSE /\ hist' = [hist EXCEPT ![c].barge = NoBarge]
               /\ UNCHANGED <<sendPc, outVars>>
    /\ UNCHANGED <<tokenVars, pc, inboundVars, openai_ws, nEv, initial_stream_sid, session,
                   recvPc>>

\* lines 247-253 and 295-301: record the turn, then send the mark
AfterMedia(c) ==
    /\ sendPc[c] = "media_sent"
    /\ LET s == NewTurn(session[c], response[c].item_id) IN
        /\ session' = [session EXCEPT ![c] = s]
        /\ hist' = [hist EXCEPT ![c].turn =
                IF s # session[c]
                    THEN [item |-> response[c].item_id,
                          media |-> hist[c].lastMediaTs,
                          since |-> hist[c].mediaSinceStart]
                    ELSE @]
        /\ IF s.stream_sid = NoSid
            THEN /\ sendPc' = [sendPc EXCEPT ![c] = "wait"]
                 /\ UNCHANGED twilioOut
            ELSE IF InboundOpen(c)
                THEN /\ twilioOut' = [twilioOut EXCEPT ![c] = Append(@, mark_event(s.stream_sid))]
                     /\ sendPc' = [sendPc EXCEPT ![c] = "mark_sent"]
                ELSE PumpFails(c) /\ UNCHANGED twilioOut
    /\ UNCHANGED <<tokenVars, pc, inboundVars, modelVars, initial_stream_sid, recvPc,
                   response, modelOut>>

\* line 302
AfterMark(c) ==
    /\ sendPc[c] = "mark_sent"
    /\ session' = [session EXCEPT ![c].mark_queue = Append(@, "responsePart")]
    /\ sendPc' = [sendPc EXCEPT ![c] = "wait"]
    /\ UNCHANGED <<tokenVars, pc, inboundVars, modelVars, initial_stream_sid, recvPc,
                   response, outVars, hist>>

\* lines 285-288: send the clear
AfterTruncate(c) ==
    /\ sendPc[c] = "truncate_sent"
    /\ IF InboundOpen(c)
        THEN /\ twilioOut' = [twilioOut EXCEPT ![c] = Append(@, clear_event(session[c]))]
             /\ sendPc' = [sendPc EXCEPT ![c] = "clear_sent"]
             /\ hist' = [hist EXCEPT ![c].barge.sid = session[c].stream_sid,
                                     ![c].barge.phase = "cleared"]
        ELSE PumpFails(c) /\ UNCHANGED <<twilioOut, hist>>
    /\ UNCHANGED <<tokenVars, pc, inboundVars, modelVars, initial_stream_sid, session,
                   recvPc, response, modelOut>>

\* lines 290-292
AfterClear(c) ==
    /\ sendPc[c] = "clear_sent"
    /\ session' = [session EXCEPT ![c] = ResetTurn(@)]
    /\ sendPc' = [sendPc EXCEPT ![c] = "wait"]
    /\ hist' = [hist EXCEPT ![c].barge.phase = "done"]
    /\ UNCHANGED <<tokenVars, pc, inboundVars, modelVars, initial_stream_sid, recvPc,
                   response, outVars>>

\* the iteration of line 230 ends once the model connection is closed and
\* every event received before the close has been handled
SendPumpEnd(c) ==
    /\ sendPc[c] = "wait"
    /\ modelbox[c] = NoEv /\ openai_ws[c] = "CLOSED"
    /\ sendPc' = [sendPc EXCEPT ![c] = "done"]
    /\ UNCHANGED <<tokenVars, pc, inboundVars, modelVars, initial_stream_sid, session,
                   recvPc, response, outVars, hist>>

\* line 304 returns when both pumps have ended: the async with block closes
\* the model connection, the handler returns and the server closes the
\* inbound websocket
RelayEnd(c) ==
    /\ pc[c] = "relay"
    /\ recvPc[c] = "done" /\ sendPc[c] = "done"
    /\ pc' = [pc EXCEPT ![c] = "closed"]
    /\ ws' = [ws EXCEPT ![c] = "closed"]
    /\ openai_ws' = [openai_ws EXCEPT ![c] = "CLOSED"]
    /\ UNCHANGED <<tokenVars, closeReason, inbox, nIn, peerGone, modelbox, nEv, relayVars,
                   outVars, hist>>

----------------------------------------------------------------------------
(* The specifications *)

\* the process has started; no call has come in
Init ==
    /\ now = 0
    /\ websocket_tokens = <<>>
    /\ issued = 0
    /\ tokHist = [expiry |-> <<>>, swept |-> {}, presented |-> {}, accepted |-> <<>>]
    /\ pc = [c \in Conns |-> "none"]
    /\ ws = [c \in Conns |-> "none"]
    /\ closeReason = [c \in Conns |-> "none"]
    /\ inbox = [c \in Conns |-> NoMsg]
    /\ nIn = 0
    /\ peerGone = [c \in Conns |-> FALSE]
    /\ openai_ws = [c \in Conns |-> "none"]
    /\ modelbox = [c \in Conns |-> NoEv]
    /\ nEv = 0
    /\ initial_stream_sid = [c \in Conns |-> NoSid]
    /\ session = [c \in Conns |-> NoSession]
    /\ recvPc = [c \in Conns |-> "idle"]
    /\ sendPc = [c \in Conns |-> "idle"]
    /\ response = [c \in Conns |-> NoEv]
    /\ modelOut = [c \in Conns |-> <<>>]
    /\ twilioOut = [c \in Conns |-> <<>>]
    /\ hist = [c \in Conns |-> NoHist]

\* the token store: the admission of calls and the start frames of all
\* connections, interleaved
Next ==
    \/ IncomingCall
    \/ Tick
    \/ \E c \in Conns :
        \/ Accept(c)
        \/ TwilioSendHandshake(c)
        \/ HandshakeReceive(c)

Spec == Init /\ [][Next]_vars

\* one connection at a time, from the call to the start of the relay
SetupNext ==
    \/ IncomingCall
    \/ Tick
    \/ \E c \in {"c1"} :
        \/ Accept(c)
        \/ TwilioSendHandshake(c)
        \/ TwilioSendConnected(c)
        \/ TwilioClose(c)
        \/ HandshakeReceive(c)
        \/ HandshakeDisconnect(c)
        \/ OpenModel(c)
        \/ ModelSendInit(c)
        \/ ModelClose(c)
        \/ InitSendUpdate(c)
        \/ InitRecv(c)
        \/ SendGreeting(c)

SetupSpec == Init /\ [][SetupNext]_vars

\* the event loop runs every step of the handler that is ready to run; what
\* the peers do, and when, is up to them
SetupFairness ==
    \A c \in {"c1"} :
        /\ WF_vars(HandshakeReceive(c))
        /\ WF_vars(HandshakeDisconnect(c))
        /\ WF_vars(OpenModel(c))
        /\ WF_vars(InitSendUpdate(c))
        /\ WF_vars(InitRecv(c))
        /\ WF_vars(SendGreeting(c))

FairSetupSpec == SetupSpec /\ SetupFairness

\* the relay of one connection starts: the call was admitted with token 1, the
\* handshake [start(token 1, S1)] passed, the model acknowledged session.update
\* and the greeting was sent.  nIn and nEv count what the peers send from here.
RelayInit ==
    /\ now = 0
    /\ websocket_tokens = <<>>
    /\ issued = 1
    /\ tokHist = [expiry |-> <<TOKEN_TTL>>, swept |-> {}, presented |-> {1},
                  accepted |-> <<1>>]
    /\ pc = [c \in Conns |-> IF c = "c1" THEN "relay" ELSE "none"]
    /\ ws = [c \in Conns |-> IF c = "c1" THEN "open" ELSE "none"]
    /\ closeReason = [c \in Conns |-> "none"]
    /\ inbox = [c \in Conns |-> NoMsg]
    /\ nIn = 0
    /\ peerGone = [c \in Conns |-> FALSE]
    /\ openai_ws = [c \in Conns |-> IF c = "c1" THEN "OPEN" ELSE "none"]
    /\ modelbox = [c \in Conns |-> NoEv]
    /\ nEv = 0
    /\ initial_stream_sid = [c \in Conns |-> IF c = "c1" THEN "S1" ELSE NoSid]
    /\ session = [c \in Conns |-> IF c = "c1" THEN NewSession("S1") ELSE NoSession]
    /\ recvPc = [c \in Conns |-> IF c = "c1" THEN "wait" ELSE "idle"]
    /\ sendPc = [c \in Conns |-> IF c = "c1" THEN "wait" ELSE "idle"]
    /\ response = [c \in Conns |-> NoEv]
    /\ modelOut = [c \in Conns |-> IF c = "c1"
            THEN <<[type |-> "session.update"], [type |-> "conversation.item.create"],
                   [type |-> "response.create"]>>
            ELSE <<>>]
    /\ twilioOut = [c \in Conns |-> <<>>]
    /\ hist = [c \in Conns |-> IF c = "c1"
            THEN [NoHist EXCEPT !.started = TRUE, !.token = 1, !.sid = "S1", !.verdict = "ok",
                                !.inStore = TRUE, !.ack = "session.updated"]
            ELSE NoHist]

\* the relay of that connection
RelayNext ==
    \E c \in {"c1"} :
        \/ TwilioSendRelay(c)
        \/ TwilioClose(c)
        \/ ModelSendRelay(c)
        \/ ModelClose(c)
        \/ ReceiveFromTwilio(c)
        \/ ReceiveDisconnect(c)
        \/ SendToTwilio(c)
        \/ AfterMedia(c)
        \/ AfterMark(c)
        \/ AfterTruncate(c)
        \/ AfterClear(c)
        \/ SendPumpEnd(c)
        \/ RelayEnd(c)

RelaySpec == RelayInit /\ [][RelayNext]_vars

\* the event loop runs every step of the two pumps and of the handler that
\* is ready to run; what the peers send, and whether they close, is up to them
RelayFairness ==
    \A c \in {"c1"} :
        /\ WF_vars(ReceiveFromTwilio(c))
        /\ WF_vars(ReceiveDisconnect(c))
        /\ WF_vars(SendToTwilio(c))
        /\ WF_vars(AfterMedia(c))
        /\ WF_vars(AfterMark(c))
        /\ WF_vars(AfterTruncate(c))
        /\ WF_vars(AfterClear(c))
        /\ WF_vars(SendPumpEnd(c))
        /\ WF_vars(RelayEnd(c))

FairRelaySpec == RelaySpec /\ RelayFairness

\* RelayInit is a state SetupSpec reaches, the counters of the peers aside
RelayInitReached ==
    /\ now = 0 /\ websocket_tokens = <<>> /\ issued = 1
    /\ pc["c1"] = "relay" /\ ws["c1"] = "open" /\ ~peerGone["c1"]
    /\ inbox["c1"] = NoMsg /\ modelbox["c1"] = NoEv /\ openai_ws["c1"] = "OPEN"
    /\ session["c1"] = NewSession("S1")
    /\ recvPc["c1"] = "wait" /\ sendPc["c1"] = "wait"
    /\ modelOut["c1"] = <<[type |-> "session.update"],
                          [type |-> "conversation.item.create"],
                          [type |-> "response.create"]>>
    /\ twilioOut["c1"] = <<>>
    /\ hist["c1"] = [NoHist EXCEPT !.started = TRUE, !.token = 1, !.sid = "S1", !.verdict = "ok",
                                   !.inStore = TRUE, !.ack = "session.updated"]
    /\ tokHist = [expiry |-> <<TOKEN_TTL>>, swept |-> {}, presented |-> {1},
                  accepted |-> <<1>>]

----------------------------------------------------------------------------
(* Properties of the token store (Spec) *)

Presented(c) == hist[c].started /\ hist[c].token \in 1..issued

\* C1: a token passes validation at most once, whatever the interleaving of
\* the handshakes: the first presentation of a token before its expiry is
\* accepted and takes the token out of the store, and every later
\* presentation of it is rejected with "Invalid or missing token".
C1_TokenSingleUse ==
    /\ \A i, j \in DOMAIN tokHist.accepted :
        i # j => tokHist.accepted[i] # tokHist.accepted[j]
    /\ \A c \in Conns : Presented(c) =>
        /\ (~hist[c].presentedBefore /\ ~hist[c].expired) => hist[c].verdict = "ok"
        /\ hist[c].verdict = "ok" => hist[c].token \notin DOMAIN websocket_tokens
        /\ hist[c].presentedBefore => hist[c].verdict = "Invalid or missing token"

\* two handshakes presented the same token: one passed, the other was rejected
C1_Witness ==
    \E c, d \in Conns :
        /\ c # d /\ Presented(c) /\ Presented(d)
        /\ hist[c].token = hist[d].token
        /\ hist[c].verdict = "ok"
        /\ hist[d].verdict = "Invalid or missing token"
        /\ closeReason[d] = "Invalid or missing token"

\* C2 as stated: a token presented after its expiry is always rejected with
\* "Token expired".
C2_ExpiredReasonAlways ==
    \A c \in Conns :
        (Presented(c) /\ hist[c].expired) => hist[c].verdict = "Token expired"

\* C2, amended: a token presented after its expiry never validates; it is
\* rejected with "Token expired" when it is still in the store (no sweep and
\* no earlier presentation has removed it) and with "Invalid or missing
\* token" when a sweep or an earlier presentation has removed it.
C2_ExpiredTokenRejected ==
    \A c \in Conns : (Presented(c) /\ hist[c].expired) =>
        /\ hist[c].verdict # "ok"
        /\ pc[c] = "closed" /\ ws[c] = "closed"
        /\ hist[c].verdict = "Token expired"
            <=> ~(hist[c].swept \/ hist[c].presentedBefore)
        /\ hist[c].verdict = "Invalid or missing token"
            <=> (hist[c].swept \/ hist[c].presentedBefore)

\* an expired token that no sweep has seen is rejected with "Token expired"
C2_Witness ==
    \E c \in Conns :
        /\ Presented(c) /\ hist[c].expired
        /\ tokHist.swept = {}
        /\ ~hist[c].presentedBefore
        /\ closeReason[c] = "Token expired"

----------------------------------------------------------------------------
(* Properties of the handshake and of the model session (SetupSpec) *)

AuthFailures == {"Invalid or missing token", "Token expired"}

PumpsIdle(c) == recvPc[c] = "idle" /\ sendPc[c] = "idle"

\* C3: the model connection is opened, and the pumps are started, only for a
\* connection whose handshake validated and consumed a token that was in the
\* store and unexpired; a start frame with no token, an unknown token, a
\* token already presented or an expired token ends with the inbound
\* connection closed with an authentication-failure reason, no model
\* connection and no pump.
C3_ModelOnlyAfterValidation ==
    \A c \in Conns :
        /\ (openai_ws[c] # "none" \/ ~PumpsIdle(c) \/ session[c] # NoSession) =>
            /\ Presented(c)
            /\ hist[c].verdict = "ok"
            /\ hist[c].inStore /\ ~hist[c].expired
            /\ hist[c].token \notin DOMAIN websocket_tokens
            /\ \E i \in DOMAIN tokHist.accepted : tokHist.accepted[i] = hist[c].token
        /\ (/\ hist[c].started
            /\ \/ hist[c].token \in {NoToken, UnknownToken}
               \/ hist[c].presentedBefore
               \/ hist[c].expired) =>
            /\ pc[c] = "closed" /\ ws[c] = "closed"
            /\ closeReason[c] \in AuthFailures
            /\ openai_ws[c] = "none" /\ PumpsIdle(c) /\ session[c] = NoSession

\* a connection presents a token an earlier connection has consumed
C3_Witness ==
    \E c \in Conns :
        /\ Presented(c) /\ hist[c].presentedBefore
        /\ \E i \in DOMAIN tokHist.accepted : tokHist.accepted[i] = hist[c].token
        /\ closeReason[c] = "Invalid or missing token"
        /\ openai_ws[c] = "none"

\* C4: a frame other than connected or start received before start closes the
\* inbound connection with "Unexpected event" and ends the negotiation: no
\* session state, no model connection, no pump, nothing more is read, and the
\* step leaves the token store as it was.
C4_UnexpectedEventRejected ==
    /\ [](\A c \in Conns : hist[c].unexpected =>
            /\ pc[c] = "closed" /\ ws[c] = "closed"
            /\ closeReason[c] = "Unexpected event"
            /\ ~hist[c].started
            /\ inbox[c] = NoMsg
            /\ session[c] = NoSession /\ openai_ws[c] = "none" /\ PumpsIdle(c))
    /\ [][\A c \in Conns : (~hist[c].unexpected /\ hist'[c].unexpected) =>
            /\ websocket_tokens' = websocket_tokens
            /\ tokHist' = tokHist]_vars

\* a media frame before start was rejected while a token was in the store
C4_Witness ==
    \E c \in Conns :
        /\ hist[c].unexpected
        /\ closeReason[c] = "Unexpected event"
        /\ DOMAIN websocket_tokens # {}

\* C5: zero or more connected frames, then start(T, S) with T in the store and
\* unexpired: the handshake succeeds, the relay begins with stream_sid = S,
\* latest_media_timestamp = 0, last_assistant_item and
\* response_start_timestamp_twilio absent and mark_queue empty; a connected
\* frame is skipped without any effect.
C5_HandshakeSucceeds ==
    /\ [](\A c \in Conns :
            /\ (Presented(c) /\ hist[c].inStore /\ ~hist[c].expired) =>
                /\ hist[c].verdict = "ok"
                /\ closeReason[c] \notin AuthFailures \cup {"Unexpected event"}
            /\ pc[c] = "relay" =>
                /\ hist[c].verdict = "ok"
                /\ session[c].exists
                /\ session[c].stream_sid = hist[c].sid
                /\ session[c].latest_media_timestamp = 0
                /\ session[c].last_assistant_item = NoItem
                /\ session[c].response_start_timestamp_twilio = None
                /\ session[c].mark_queue = <<>>
                /\ recvPc[c] = "wait" /\ sendPc[c] = "wait")
    /\ [][\A c \in Conns :
            (pc[c] = "handshake" /\ inbox[c] = ConnectedFrame /\ inbox'[c] = NoMsg) =>
                /\ pc'[c] = "handshake" /\ ws'[c] = "open"
                /\ UNCHANGED <<websocket_tokens, initial_stream_sid, session, openai_ws,
                               modelOut, twilioOut>>]_vars

\* the relay begins after [connected, connected, start(T, S1)]
C5_Witness ==
    \E c \in Conns :
        /\ pc[c] = "relay"
        /\ hist[c].connected = "many"
        /\ hist[c].sid = "S1" /\ session[c].stream_sid = "S1"

\* C6: the handshake is bounded: a connection that never delivers a start
\* frame is closed in the end.
C6_HandshakeEnds ==
    \A c \in Conns : (pc[c] = "handshake") ~> (pc[c] # "handshake")

GreetingSent(c) ==
    \E i \in DOMAIN modelOut[c] : modelOut[c][i].type = "conversation.item.create"

\* C7: the greeting is sent, and the pumps are started, only after
\* session.updated has been received from the model.
C7_GreetingAfterAck ==
    \A c \in Conns :
        (GreetingSent(c) \/ ~PumpsIdle(c)) => hist[c].ack = "session.updated"

----------------------------------------------------------------------------
(* Properties of the relay (RelaySpec) *)

BothOpen(c) == InboundOpen(c) /\ openai_ws[c] = "OPEN"

RECURSIVE Appended(_)
\* the payloads of the input_audio_buffer.append commands of a sequence
Appended(out) ==
    IF out = <<>> THEN <<>>
    ELSE IF Head(out).type = "input_audio_buffer.append"
        THEN <<Head(out).audio>> \o Appended(Tail(out))
        ELSE Appended(Tail(out))

RECURSIVE Downstream(_)
\* the payloads of the media frames of a sequence
Downstream(out) ==
    IF out = <<>> THEN <<>>
    ELSE IF Head(out).event = "media"
        THEN <<Head(out).payload>> \o Downstream(Tail(out))
        ELSE Downstream(Tail(out))

\* the inbound direction of C8: the append commands carry the media payloads
\* received, in order and unmodified
InboundPassThrough ==
    \A c \in Conns : (pc[c] = "relay" /\ BothOpen(c)) =>
        Appended(modelOut[c]) = hist[c].inMedia

\* C8: while both legs are open the append commands carry the media payloads
\* received from the inbound leg, and the media frames sent downstream carry
\* the payloads of the audio deltas received from the model, in order,
\* unmodified, none dropped or duplicated.
C8_LosslessPassThrough ==
    \A c \in Conns : (pc[c] = "relay" /\ BothOpen(c)) =>
        /\ Appended(modelOut[c]) = hist[c].inMedia
        /\ Downstream(twilioOut[c]) = hist[c].inDelta

Since(out, n) == SubSeq(out, n + 1, Len(out))

Truncates(out) == SelectSeq(out, LAMBDA e : e.type = "conversation.item.truncate")

Handled(c) == hist[c].barge.phase # "none"

BargeTruncate(c) ==
    [type |-> "conversation.item.truncate",
     item_id |-> hist[c].barge.item,
     audio_end_ms |-> hist[c].barge.latest - hist[c].barge.start]

BargeClear(c) == [event |-> "clear", streamSid |-> hist[c].barge.sid]

\* C9 as stated: once speech_started has been handled with an item, a start
\* of response and pending marks, one truncate(I, L - R) has gone to the
\* model, then one clear downstream, and the three fields are reset.
C9_BargeInAlways ==
    \A c \in Conns : (Handled(c) /\ sendPc[c] \in {"wait", "done"}) =>
        /\ Truncates(Since(modelOut[c], hist[c].barge.modelSent)) = <<BargeTruncate(c)>>
        /\ \E sid \in Sids :
            Since(twilioOut[c], hist[c].barge.twilioSent) = <<[event |-> "clear", streamSid |-> sid]>>
        /\ session[c].mark_queue = <<>>
        /\ session[c].last_assistant_item = NoItem
        /\ session[c].response_start_timestamp_twilio = None

\* C9, amended: with the model connection open when the event is handled,
\* exactly one truncate(I, L - R) is sent to the model and nothing else is
\* sent downstream before the clear; with the inbound connection open when
\* the truncate has been sent, exactly one clear for the stream identifier of
\* that moment follows, and then the three fields are reset.  A send that
\* fails ends the pump with nothing more sent and nothing reset.
C9_BargeIn ==
    \A c \in Conns : Handled(c) =>
        LET b == hist[c].barge
            truncs == Truncates(Since(modelOut[c], b.modelSent))
            down == Since(twilioOut[c], b.twilioSent)
        IN /\ b.item # NoItem
           /\ b.modelOpen => truncs = <<BargeTruncate(c)>>
           /\ ~b.modelOpen => truncs = <<>> /\ down = <<>> /\ sendPc[c] = "done"
           /\ b.phase = "started" =>
                /\ down = <<>>
                /\ sendPc[c] \in {"truncate_sent", "done"}
                /\ session[c].last_assistant_item = b.item
                /\ session[c].response_start_timestamp_twilio = Some(b.start)
           /\ b.phase \in {"cleared", "done"} =>
                /\ b.modelOpen
                /\ down = <<BargeClear(c)>>
           /\ b.phase = "cleared" => sendPc[c] = "clear_sent"
           /\ b.phase = "done" =>
                /\ session[c].mark_queue = <<>>
                /\ session[c].last_assistant_item = NoItem
                /\ session[c].response_start_timestamp_twilio = None
           /\ sendPc[c] = "truncate_sent" => b.phase = "started" /\ b.modelOpen
           /\ sendPc[c] = "clear_sent" => b.phase = "cleared"

\* media 40, delta item1, media 100, speech_started: truncate(item1, 60), then
\* clear for S1, then the reset
C9_Witness ==
    \E c \in Conns :
        /\ hist[c].barge.phase = "done"
        /\ hist[c].barge.item = "item1"
        /\ Truncates(modelOut[c]) =
            <<[type |-> "conversation.item.truncate", item_id |-> "item1", audio_end_ms |-> 60]>>
        /\ twilioOut[c][Len(twilioOut[c])] = [event |-> "clear", streamSid |-> "S1"]
        /\ session[c].last_assistant_item = NoItem
        /\ session[c].mark_queue = <<>>

CurrentTurn(c) ==
    /\ session[c].exists
    /\ hist[c].turn.item # NoItem
    /\ session[c].last_assistant_item = hist[c].turn.item

\* C10 as stated: the start of the response recorded for a new item is the
\* timestamp of the last inbound media frame processed before it.
C10_CaptureLastMedia ==
    \A c \in Conns : (CurrentTurn(c) /\ hist[c].turn.media # None) =>
        session[c].response_start_timestamp_twilio = hist[c].turn.media

SinceStart(m) == IF m = None THEN 0 ELSE m[1]

\* C10, amended: the start of the response recorded for a new item is
\* latest_media_timestamp as it is when the turn is recorded, after the audio
\* of the delta has been sent downstream: the timestamp of the last media
\* frame forwarded to the model since the last start frame, 0 when there is
\* none; a delta of the current item changes neither field.
C10_NewTurnCapture ==
    /\ [](\A c \in Conns :
            /\ session[c].exists =>
                session[c].latest_media_timestamp = SinceStart(hist[c].mediaSinceStart)
            /\ CurrentTurn(c) =>
                session[c].response_start_timestamp_twilio = Some(SinceStart(hist[c].turn.since)))
    /\ [][\A c \in Conns : (sendPc[c] = "media_sent" /\ sendPc'[c] # "media_sent") =>
            IF response[c].item_id = session[c].last_assistant_item
                THEN /\ session'[c].last_assistant_item = session[c].last_assistant_item
                     /\ session'[c].response_start_timestamp_twilio =
                            session[c].response_start_timestamp_twilio
                ELSE /\ session'[c].last_assistant_item = response[c].item_id
                     /\ session'[c].response_start_timestamp_twilio =
                            Some(SinceStart(hist[c].mediaSinceStart))]_vars

\* media 40, then a delta of item1: 40 and item1
C10_Witness ==
    \E c \in Conns :
        /\ CurrentTurn(c)
        /\ hist[c].turn.item = "item1"
        /\ hist[c].turn.since = Some(40)
        /\ session[c].response_start_timestamp_twilio = Some(40)

----------------------------------------------------------------------------
(* Properties of the interruption guard and of the mark queue (RelaySpec) *)

\* the outbound pump is about to take this event from the model connection
Handles(c, type) ==
    /\ pc[c] = "relay" /\ sendPc[c] = "wait"
    /\ modelbox[c].type = type
    /\ modelbox'[c] = NoEv

\* nothing to interrupt: no item, no pending mark or no start of response
NothingToInterrupt(s) ==
    \/ s.last_assistant_item = NoItem
    \/ s.mark_queue = <<>>
    \/ s.response_start_timestamp_twilio = None

\* C11: a speech_started event handled while last_assistant_item is absent,
\* mark_queue is empty or response_start_timestamp_twilio is unset sends no
\* truncate and no clear, raises no error (the pump keeps running and both
\* connections stay as they are) and leaves every field of the session state
\* unchanged.
C11_NoOpGuard ==
    [][\A c \in Conns :
        (Handles(c, "input_audio_buffer.speech_started") /\ NothingToInterrupt(session[c])) =>
            /\ session'[c] = session[c]
            /\ modelOut'[c] = modelOut[c]
            /\ twilioOut'[c] = twilioOut[c]
            /\ sendPc'[c] = "wait" /\ recvPc'[c] = recvPc[c]
            /\ ws'[c] = ws[c] /\ openai_ws'[c] = openai_ws[c]]_vars

\* speech_started has been handled with an item recorded but its mark
\* already acknowledged: nothing was sent and the item is still recorded
C11_Witness ==
    \E c \in Conns :
        /\ pc[c] = "relay" /\ sendPc[c] = "wait"
        /\ response[c].type = "input_audio_buffer.speech_started"
        /\ hist[c].barge.phase = "none"
        /\ session[c].last_assistant_item = "item1"
        /\ session[c].mark_queue = <<>>
        /\ Truncates(modelOut[c]) = <<>>
        /\ twilioOut[c] # <<>>
        /\ \A i \in DOMAIN twilioOut[c] : twilioOut[c][i].event # "clear"

\* the inbound pump is about to take this frame from the inbound connection
Receives(c, event) ==
    /\ pc[c] = "relay" /\ recvPc[c] = "wait"
    /\ inbox[c].event = event
    /\ inbox'[c] = NoMsg

\* C12: a mark frame removes the oldest entry of mark_queue and changes no
\* other field of the session state; with mark_queue empty it changes
\* nothing and raises no error: both pumps keep running and nothing is sent.
C12_MarkAck ==
    [][\A c \in Conns : Receives(c, "mark") =>
        /\ session'[c] =
            [session[c] EXCEPT !.mark_queue = IF @ = <<>> THEN <<>> ELSE Tail(@)]
        /\ recvPc'[c] = "wait" /\ sendPc'[c] = sendPc[c]
        /\ modelOut'[c] = modelOut[c] /\ twilioOut'[c] = twilioOut[c]
        /\ ws'[c] = ws[c] /\ openai_ws'[c] = openai_ws[c]]_vars

\* one mark sent downstream, two mark frames received: the second found the
\* queue empty, and both pumps still run
C12_Witness ==
    \E c \in Conns :
        /\ pc[c] = "relay" /\ recvPc[c] = "wait" /\ sendPc[c] = "wait"
        /\ MarksSent(twilioOut[c]) = 1
        /\ hist[c].marksIn = 2
        /\ session[c].mark_queue = <<>>
        /\ session[c].last_assistant_item # NoItem

----------------------------------------------------------------------------
(* Properties of the end of the relay (RelaySpec, FairRelaySpec) *)

\* C13: once the inbound leg has delivered a stop frame, no further inbound
\* frame is relayed to the model.
C13_StopEndsRelay ==
    \A c \in Conns : hist[c].stopAt # None =>
        Appended(Since(modelOut[c], hist[c].stopAt[1])) = <<>>

\* C14: once the model connection has closed, or the outbound pump has ended,
\* the inbound connection is closed in the end and the inbound pump ends too.
C14_PumpsEndTogether ==
    \A c \in Conns :
        (pc[c] = "relay" /\ (sendPc[c] = "done" \/ openai_ws[c] = "CLOSED"))
            ~> (recvPc[c] = "done" /\ ws[c] = "closed")

----------------------------------------------------------------------------
(* Properties of the session state (RelaySpec) *)

\* C15: a start frame received during the relay sets stream_sid to the
\* frame's stream identifier, resets response_start_timestamp_twilio to
\* absent, latest_media_timestamp to 0 and last_assistant_item to absent in
\* the state the outbound pump works on, and leaves mark_queue as it was.
C15_StartResets ==
    [][\A c \in Conns : Receives(c, "start") =>
        session'[c] = [session[c] EXCEPT !.stream_sid = inbox[c].streamSid,
                                         !.response_start_timestamp_twilio = None,
                                         !.latest_media_timestamp = 0,
                                         !.last_assistant_item = NoItem]]_vars

\* C16: every truncate command sent to the model carries an offset >= 0.
C16_OffsetNonNegative ==
    \A c \in Conns : \A i \in DOMAIN modelOut[c] :
        modelOut[c][i].type = "conversation.item.truncate" => modelOut[c][i].audio_end_ms >= 0

----------------------------------------------------------------------------
(* Properties of the sweep (Spec) *)

Presentable == Tokens \cup {NoToken, UnknownToken}

\* the verdict on token k now, with and without a sweep just before it
VerdictNow(k) == Validate(websocket_tokens, k, now).verdict
VerdictAfterSweep(k) ==
    Validate(cleanup_expired_tokens(websocket_tokens, now), k, now).verdict

\* C17 as stated: for every token and every time the result of validation
\* (accepted, Invalid or Expired) is the same whether or not a sweep ran
\* before it.
C17_SweepInvisible ==
    \A k \in Presentable : VerdictAfterSweep(k) = VerdictNow(k)

\* C17, amended: the sweep removes exactly the tokens whose expiry has passed
\* and leaves the others as they are; whether a handshake is accepted does
\* not depend on a sweep having run before it, but the reason of a rejection
\* does: an expired token is rejected as "Token expired" while it is in the
\* store and as "Invalid or missing token" once a sweep has removed it.
C17_SweepEquivalence ==
    /\ [](LET swept == cleanup_expired_tokens(websocket_tokens, now) IN
            /\ DOMAIN swept \subseteq DOMAIN websocket_tokens
            /\ \A k \in DOMAIN websocket_tokens :
                /\ k \in DOMAIN swept <=> now <= websocket_tokens[k]
                /\ k \in DOMAIN swept => swept[k] = websocket_tokens[k]
            /\ \A k \in Presentable :
                /\ VerdictAfterSweep(k) = "ok" <=> VerdictNow(k) = "ok"
                /\ VerdictAfterSweep(k) # VerdictNow(k) =>
                    /\ k \in DOMAIN websocket_tokens /\ now > websocket_tokens[k]
                    /\ VerdictNow(k) = "Token expired"
                    /\ VerdictAfterSweep(k) = "Invalid or missing token"
            /\ \A c \in Conns : Presented(c) =>
                /\ hist[c].swept => hist[c].expired
                /\ hist[c].verdict = "ok" <=> (~hist[c].expired /\ ~hist[c].presentedBefore)
                /\ (hist[c].swept /\ ~hist[c].presentedBefore) =>
                    hist[c].verdict = "Invalid or missing token"
                /\ (hist[c].expired /\ ~hist[c].swept /\ ~hist[c].presentedBefore) =>
                    hist[c].verdict = "Token expired")
    /\ [][issued' # issued =>
            DOMAIN websocket_tokens' =
                {k \in DOMAIN websocket_tokens : now <= websocket_tokens[k]} \cup {issued'}]_vars

\* a call has swept an expired token, and a handshake that presented it
\* afterwards was rejected as invalid
C17_Witness ==
    \E c \in Conns :
        /\ Presented(c) /\ hist[c].swept /\ ~hist[c].presentedBefore
        /\ hist[c].token \in tokHist.swept
        /\ closeReason[c] = "Invalid or missing token"
        /\ DOMAIN websocket_tokens # {}

----------------------------------------------------------------------------
(* Properties of the interleaving of the two pumps (RelaySpec) *)

\* the fields the interruption handler reads at lines 258-269
InterruptionReads(s) ==
    <<s.last_assistant_item, s.mark_queue, s.response_start_timestamp_twilio,
      s.latest_media_timestamp>>

\* C18: between a task's read of session state for a decision and its
\* completing write, no other task modifies the fields read: while the
\* interruption handler is suspended in its sends, before its reset, the
\* fields it read stay as they were, and while send_mark is suspended in its
\* send, before its append, stream_sid stays as it was.
C18_NoUpdateAcrossAwait ==
    [][\A c \in Conns :
        /\ (sendPc[c] \in {"truncate_sent", "clear_sent"} /\ sendPc'[c] = sendPc[c]) =>
            InterruptionReads(session'[c]) = InterruptionReads(session[c])
        /\ (sendPc[c] = "mark_sent" /\ sendPc'[c] = sendPc[c]) =>
            session'[c].stream_sid = session[c].stream_sid]_vars

\* C19: mark_queue never holds an entry for a mark the inbound leg has
\* already acknowledged: its length is at most the number of marks sent
\* downstream less the number of them acknowledged by a mark frame.
C19_MarkAccounting ==
    \A c \in Conns : session[c].exists =>
        Len(session[c].mark_queue) <= MarksSent(twilioOut[c]) - hist[c].acked

\* C20: in every state of the relay last_assistant_item is absent if and
\* only if response_start_timestamp_twilio is absent; a step that changes
\* either of them is the recording of a new item's delta, which sets both,
\* or the reset of the interruption, which clears both.
C20_Pairing ==
    /\ [](\A c \in Conns : session[c].exists =>
            (session[c].last_assistant_item = NoItem
                <=> session[c].response_start_timestamp_twilio = None))
    /\ [][\A c \in Conns :
            (/\ session[c].exists /\ session'[c].exists
             /\ \/ session'[c].last_assistant_item # session[c].last_assistant_item
                \/ session'[c].response_start_timestamp_twilio #
                        session[c].response_start_timestamp_twilio) =>
                \/ /\ sendPc[c] = "media_sent"
                   /\ response[c].item_id # session[c].last_assistant_item
                   /\ session'[c].last_assistant_item = response[c].item_id
                   /\ session'[c].last_assistant_item # NoItem
                   /\ session'[c].response_start_timestamp_twilio # None
                \/ /\ sendPc[c] = "clear_sent"
                   /\ session'[c].last_assistant_item = NoItem
                   /\ session'[c].response_start_timestamp_twilio = None]_vars

\* a turn was recorded (both set) and an interruption has reset it (both
\* absent)
C20_Witness ==
    \E c \in Conns :
        /\ session[c].exists
        /\ hist[c].turn.item # NoItem
        /\ hist[c].barge.phase = "done"
        /\ session[c].last_assistant_item = NoItem
        /\ session[c].response_start_timestamp_twilio = None

====
